---- MODULE Spec2Model ----
(***************************************************************************)
(* The Reader of package ranger, in the two revisions the repository       *)
(* carries: the block-cache Reader of reader.go (blocks fetched through    *)
(* RangeFetcher.FetchBlocks and kept in a map) and the ring-buffer Reader  *)
(* (one window of buffSize bytes filled through RangeFetcher.FetchRanges). *)
(* A behaviour drives one Reader of one revision through ReadAt, Read,     *)
(* Seek and Length calls; every call is one step (Spec).                   *)
(* SpecConc has two goroutines call ReadAt on one Reader: on the           *)
(* block-cache Reader one step per section between lock operations, on the *)
(* ring-buffer Reader one step for the seek and one for the read. SpecHTTP *)
(* has the HTTPRanger of http.go called by two goroutines, or by the       *)
(* ring-buffer Reader that NewReader builds on it. SpecValidate applies    *)
(* validateResponse to every response. SpecDiscover runs the HEAD/GET      *)
(* discovery of HTTPRanger.init over the answers a server can give, twice, *)
(* and reads through the Reader built on its result. SpecFill applies      *)
(* fillBlocks to the bodies a 206 response can carry. SpecRange applies    *)
(* blockRange to every operand of integers IntBits wide. SpecSize builds a *)
(* Reader with a configured size, negative and zero included, and reads.   *)
(***************************************************************************)
EXTENDS Integers, Sequences, FiniteSets, TLC

\* ---------------------------------------------------------------- bounds
\* resource lengths are 1..MaxLength
MaxLength == 3
\* explicitly configured block sizes are 1..MaxBlockSize
MaxBlockSize == 2
\* ring-buffer sizes are 1..MaxBuffSize
MaxBuffSize == 2
\* caller buffers p have len(p) in 0..MaxP
MaxP == 2
\* at most MaxFaults fetcher calls fail in a behaviour
MaxFaults == 1

\* the longest buffer passed to a Reader that sits on the HTTPRanger
MaxHTTPRead == 1

\* the width, in bits, that int64 and int are given where blockRange is
\* applied to operands up to the largest one
IntBits == 4

\* ------------------------------------------------------------- constants
DefaultBlockSize == 131072

defaultBuffSize == 524288

VARIABLES
  rev,      \* which Reader revision the behaviour drives: "block" or "ring" ("none": no Reader)
  resLen,   \* L: the length of the remote resource
  reader,   \* the block-cache Reader: Fetcher state, BlockSize, blocks, mutex, initialized, off
  ring,     \* the ring-buffer Reader: buff, readPoint, writePoint, Length, buffSize
  fetcher,  \* the RangeFetcher behind the reader: "conforming", or "noblocks" (nil error, no blocks)
  halt,     \* "run", or why the calling goroutine stopped: "panic", "blocked"
  faults,   \* how many fetcher calls (Initialize, ExpectedLength, FetchBlocks, FetchRanges) have failed
  ranger,   \* the HTTPRanger: validator, length, once
  version,  \* the version of the resource the server holds
  seen,     \* how initialization ended, and the response to the last data request of a read
  pc,       \* where each goroutine stands in the call it is making
  call,     \* each goroutine's call: its arguments and, once it returned, its results
  last      \* the last call: its arguments, its results, the fetcher calls it made

hvars == <<ranger, version, seen>>

vars == <<rev, resLen, reader, ring, fetcher, halt, faults, hvars, pc, call, last>>

\* ------------------------------------------------------------ Go helpers
Min(a, b) == IF a < b THEN a ELSE b

\* Go's integer division and remainder truncate toward zero; the remainder
\* has the sign of the dividend (b # 0)
Abs(a) == IF a >= 0 THEN a ELSE -a

GoDiv(a, b) == IF (a >= 0) = (b > 0) THEN Abs(a) \div Abs(b) ELSE -(Abs(a) \div Abs(b))

GoRem(a, b) == IF a >= 0 THEN a % Abs(b) ELSE -((-a) % Abs(b))

\* make([]byte, l)
Zero(l) == [i \in 1..l |-> 0]

\* s[a:b] for 0 <= a <= b <= len(s)
Slice(s, a, b) == SubSeq(s, a + 1, b)

\* copy(dst[at:at+cap], src): the buffer afterwards and the count copied
CopyInto(dst, at, cap, src) ==
  LET c == Min(cap, Len(src))
  IN [p |-> [i \in 1..Len(dst) |-> IF i > at /\ i <= at + c THEN src[i - at] ELSE dst[i]],
      n |-> c]

\* the remote resource: byte i of it, and its bytes [a, b)
ResourceByte(i) == i + 1

ResourceBytes(a, b) == [k \in 1..(b - a) |-> ResourceByte(a + k - 1)]

\* what a call hands back: the reader afterwards, (n, err), the caller's
\* buffer, the range lists passed to the fetcher, whether the goroutine goes on
Ret(s, n, err, p, calls, fault) ==
  [s |-> s, n |-> n, err |-> err, p |-> p, calls |-> calls, fault |-> fault, halt |-> "run"]

Stop(s, why, p, calls, fault) ==
  [s |-> s, n |-> 0, err |-> why, p |-> p, calls |-> calls, fault |-> fault, halt |-> why]

\* ========================================================================
\* reader.go: the block-cache Reader
\* ========================================================================

blockRange(o, length, blockSize) ==
  LET startBlock == GoDiv(o, blockSize)
      endBlock == GoDiv(o + length, blockSize)
      endBlockOff == GoRem(o + length, blockSize)
      nblocks == endBlock - startBlock
  IN <<startBlock, IF endBlockOff > 0 THEN nblocks + 1 ELSE nblocks>>

\* Reader.Length (initialized): the fetcher's Length()
FetcherLength(s) == s.length

\* the BlockByteRange ReadAt builds for block bn
BlockByteRangeOf(s, bn) ==
  LET e == ((bn + 1) * s.BlockSize) - 1
  IN [Number |-> bn, Start |-> bn * s.BlockSize,
      End |-> IF e > FetcherLength(s) THEN FetcherLength(s) ELSE e]

\* the probe loop of ReadAt: one range per block that is not in r.blocks
MissingRanges(s, startBlock, nblocks) ==
  LET all == [i \in 1..nblocks |-> BlockByteRangeOf(s, startBlock + i - 1)]
  IN SelectSeq(all, LAMBDA g: g.Number \notin DOMAIN s.blocks)

\* a FetchBlocks that succeeds: one Block per range, holding the resource's
\* bytes of the range (a range reaching past the last byte is served up to it);
\* the "noblocks" fetcher returns an empty list and a nil error
FetchBlocks(ranges, len) ==
  IF fetcher = "noblocks" THEN << >> ELSE
  [i \in 1..Len(ranges) |->
     [Number |-> ranges[i].Number,
      Data |-> ResourceBytes(ranges[i].Start, Min(ranges[i].End, len - 1) + 1)]]

\* the Range header FetchBlocks sends for ranges: "bytes=" and one "start-end"
\* per range, in order
RangeHeader(ranges) == [i \in 1..Len(ranges) |-> <<ranges[i].Start, ranges[i].End>>]

\* for _, v := range blox { r.blocks[v.Number] = v.Data }
InstallBlocks(blks, blox) ==
  LET nums == {blox[i].Number : i \in 1..Len(blox)}
      lastOf(bn) == CHOOSE i \in 1..Len(blox) :
                      /\ blox[i].Number = bn
                      /\ \A j \in 1..Len(blox) : blox[j].Number = bn => j <= i
  IN [bn \in (DOMAIN blks) \cup nums |->
        IF bn \in nums THEN blox[lastOf(bn)].Data ELSE blks[bn]]

RECURSIVE copyLoop(_, _, _, _, _, _)
copyLoop(s, p, remaining, block, startOffset, ncopied) ==
  IF remaining <= 0 THEN [p |-> p, n |-> ncopied, st |-> "ok"]
  ELSE LET c1 == IF s.BlockSize > remaining THEN remaining ELSE s.BlockSize
           copylen == IF startOffset + c1 > s.BlockSize
                      THEN s.BlockSize - startOffset ELSE c1
       IN IF block \notin DOMAIN s.blocks THEN [p |-> p, n |-> 0, st |-> "lies"]
          ELSE IF startOffset > Len(s.blocks[block]) THEN [p |-> p, n |-> 0, st |-> "panic"]
          ELSE LET src == Slice(s.blocks[block], startOffset, Len(s.blocks[block]))
                   c == CopyInto(p, ncopied, copylen, src)
               IN copyLoop(s, c.p, remaining - copylen, block + 1, 0, ncopied + copylen)

\* the error copyRangeToBuffer pairs with a complete copy
CopyErr(o, l, len) == IF o + l = len THEN "EOF" ELSE "nil"

copyRangeToBuffer(s, p, o, calls) ==
  LET c == copyLoop(s, p, Len(p), GoDiv(o, s.BlockSize), GoRem(o, s.BlockSize), 0)
  IN IF c.st = "panic" THEN Stop(s, "panic", c.p, calls, FALSE)
     ELSE IF c.st = "lies" THEN Ret(s, 0, "lies", c.p, calls, FALSE)
     ELSE Ret(s, c.n, CopyErr(o, Len(p), FetcherLength(s)), c.p, calls, FALSE)

\* Reader.init up to the fetcher call: marks the reader initialized, makes
\* the block map, defaults the block size
initLocked(s) ==
  [s EXCEPT !.initialized = TRUE,
            !.blocks = << >>,
            !.BlockSize = IF @ = 0 THEN DefaultBlockSize ELSE @]

\* the fetcher's Initialize (ok says it succeeds): it stores the length
Initialize(s, ok) ==
  [s EXCEPT !.inits = @ + 1,
            !.length = IF ok THEN resLen ELSE @]

\* an init that never calls the fetcher
init_NoDiscovery(s, ok) == initLocked(s)

\* Reader.init, under the write lock from start to end
init(s, ok) == Initialize(initLocked(s), ok)

\* ReadAt's guard on the end of the read
ReadBeyond(o, l, len) == o + l > len

\* Reader.ReadAt; make([]BlockByteRange, nblocks) panics on a negative count
ReadAtBlock(s0, l, o, initOK, fetchOK) ==
  LET s == IF ~s0.initialized THEN init(s0, initOK) ELSE s0
      p == Zero(l)
  IN IF ~s0.initialized /\ ~initOK THEN Ret(s, 0, "init", p, << >>, TRUE)
     ELSE IF o < 0 THEN Ret(s, 0, "before", p, << >>, FALSE)
     ELSE IF ReadBeyond(o, l, FetcherLength(s)) THEN Ret(s, 0, "beyond", p, << >>, FALSE)
     ELSE LET br == blockRange(o, l, s.BlockSize)
              ranges == MissingRanges(s, br[1], br[2])
          IN IF br[2] < 0 THEN Stop(s, "panic", p, << >>, FALSE)
             ELSE IF s.mutex = "locked" THEN Stop(s, "blocked", p, << >>, FALSE)
             ELSE IF ranges # << >> /\ ~fetchOK
                  THEN Ret([s EXCEPT !.mutex = "locked"], 0, "fetch", p, <<ranges>>, TRUE)
             ELSE LET blox == FetchBlocks(ranges, resLen)
                      s2 == [s EXCEPT !.blocks = InstallBlocks(@, blox)]
                  IN copyRangeToBuffer(s2, p, o, <<ranges>>)

\* Reader.Length: initializes a reader that is not yet initialized
LengthBlock(s0, initOK) ==
  LET s == IF ~s0.initialized THEN init(s0, initOK) ELSE s0
  IN Ret(s, FetcherLength(s), "nil", << >>, << >>, ~s0.initialized /\ ~initOK)

\* a Read that only stops once the offset is past the end
AtEOF_PastEnd(o, len) == o > len

\* Reader.Read's end-of-file test
AtEOF(o, len) == o = len

ReadBlock(s0, l, initOK, fetchOK) ==
  LET s == LengthBlock(s0, initOK).s
      fault == LengthBlock(s0, initOK).fault
  IN IF AtEOF(s.off, FetcherLength(s)) THEN Ret(s, 0, "EOF", Zero(l), << >>, fault)
     ELSE LET c == ReadAtBlock(s, l, s.off, initOK, fetchOK)
          IN [c EXCEPT !.s.off = @ + c.n, !.fault = @ \/ fault]

SeekBlock(s0, o, whence, initOK) ==
  IF o < 0 THEN Ret(s0, 0, "seekneg", << >>, << >>, FALSE)
  ELSE LET s == LengthBlock(s0, initOK).s
           fault == LengthBlock(s0, initOK).fault
           len == FetcherLength(s)
       IN CASE whence = 0 ->
                 IF o > len THEN Ret(s, 0, "seekbeyond", << >>, << >>, fault)
                 ELSE Ret([s EXCEPT !.off = o], o, "nil", << >>, << >>, fault)
            [] whence = 1 ->
                 IF s.off + o > len THEN Ret(s, 0, "seekbeyond", << >>, << >>, fault)
                 ELSE Ret([s EXCEPT !.off = s.off + o], s.off + o, "nil", << >>, << >>, fault)
            [] whence = 2 ->
                 IF len - o < 0 THEN Ret(s, 0, "seekbefore", << >>, << >>, fault)
                 ELSE Ret([s EXCEPT !.off = len - o], len - o, "nil", << >>, << >>, fault)

\* ========================================================================
\* the ring-buffer Reader
\* ========================================================================

\* ringRead(p[at:], ringBuff, readIndex, writeIndex); a slice bound outside
\* the buffer panics
ringRead(p, at, ringBuff, readIndex, writeIndex) ==
  IF writeIndex > readIndex
  THEN IF readIndex < 0 \/ writeIndex > Len(ringBuff)
       THEN [p |-> p, n |-> 0, panic |-> TRUE]
       ELSE LET c == CopyInto(p, at, Len(p) - at, Slice(ringBuff, readIndex, writeIndex))
            IN [p |-> c.p, n |-> c.n, panic |-> FALSE]
  ELSE IF readIndex < 0 \/ readIndex > Len(ringBuff) \/ writeIndex < 0
       THEN [p |-> p, n |-> 0, panic |-> TRUE]
       ELSE LET c1 == CopyInto(p, at, Len(p) - at, Slice(ringBuff, readIndex, Len(ringBuff)))
                c2 == CopyInto(c1.p, at + c1.n, Len(p) - at - c1.n, Slice(ringBuff, 0, writeIndex))
            IN [p |-> c2.p, n |-> c1.n + c2.n, panic |-> FALSE]

\* ringWrite(p, ringBuff, readIndex, writeIndex): the buffer afterwards and
\* the count written
ringWrite(p, ringBuff, readIndex, writeIndex) ==
  IF writeIndex >= readIndex
  THEN IF writeIndex < 0 \/ writeIndex > Len(ringBuff) \/ readIndex < 0
       THEN [buff |-> ringBuff, n |-> 0, panic |-> TRUE]
       ELSE LET n1 == Min(Len(ringBuff) - writeIndex, Len(p))
                n2 == Min(readIndex, Len(p) - n1)
            IN [buff |-> [i \in 1..Len(ringBuff) |->
                            IF i > writeIndex /\ i <= writeIndex + n1 THEN p[i - writeIndex]
                            ELSE IF i <= n2 THEN p[n1 + i]
                            ELSE ringBuff[i]],
                n |-> n1 + n2, panic |-> FALSE]
  ELSE IF writeIndex < 0 \/ readIndex > Len(ringBuff)
       THEN [buff |-> ringBuff, n |-> 0, panic |-> TRUE]
       ELSE LET n1 == Min(readIndex - writeIndex, Len(p))
            IN [buff |-> [i \in 1..Len(ringBuff) |->
                            IF i > writeIndex /\ i <= writeIndex + n1 THEN p[i - writeIndex]
                            ELSE ringBuff[i]],
                n |-> n1, panic |-> FALSE]

\* a FetchRanges that succeeds: one Block per range, Length and Data of the
\* range; the "noblocks" fetcher returns an empty list and a nil error
FetchRanges(ranges) ==
  IF fetcher = "noblocks" THEN << >> ELSE
  [i \in 1..Len(ranges) |->
     [Length |-> ranges[i].End - ranges[i].Start + 1,
      Data |-> ResourceBytes(ranges[i].Start, ranges[i].End + 1)]]

\* fillBuff's upper end of the range it asks for
FillRangeEnd(g, fillSize) ==
  LET e == g.writePoint + fillSize - 1
  IN IF e > g.Length - 1 THEN g.Length - 1 ELSE e

\* Reader.fillBuff; ok says the FetchRanges call, if one is made, succeeds.
\* A range that starts before byte 0 is refused by the fetcher with an error;
\* blocks[0] of an empty block list panics.
fillBuff(g0, ok) ==
  LET d0 == g0.writePoint - g0.readPoint
      g == IF d0 > g0.buffSize THEN [g0 EXCEPT !.writePoint = g0.readPoint] ELSE g0
      distance == IF d0 > g0.buffSize THEN 0 ELSE d0
  IN IF g.writePoint >= g.Length THEN [g |-> g, err |-> "nil", calls |-> << >>]
     ELSE IF distance = g.buffSize THEN [g |-> g, err |-> "nil", calls |-> << >>]
     ELSE LET fillSize == g.buffSize - distance
              ranges == <<[Start |-> g.writePoint, End |-> FillRangeEnd(g, fillSize)]>>
          IN IF ~ok \/ ranges[1].Start < 0
             THEN [g |-> g, err |-> IF ok THEN "refused" ELSE "fetch", calls |-> <<ranges>>]
             ELSE IF FetchRanges(ranges) = << >>
             THEN [g |-> g, err |-> "panic", calls |-> <<ranges>>]
             ELSE LET value == FetchRanges(ranges)[1]
                      writeIndex == GoRem(g.writePoint, g.buffSize)
                      readIndex == GoRem(g.readPoint, g.buffSize)
                      w == ringWrite(Slice(value.Data, 0, value.Length), g.buff, readIndex, writeIndex)
                  IN IF w.panic THEN [g |-> g, err |-> "panic", calls |-> <<ranges>>]
                     ELSE [g |-> [g EXCEPT !.buff = w.buff, !.writePoint = @ + w.n],
                           err |-> "nil", calls |-> <<ranges>>]

\* the loop of Reader.Read for len(p) > distance; the indices are those
\* computed before the loop. failAt is the number of the fetcher call of
\* this Read that fails (0: none).
RECURSIVE readLoop(_, _, _, _, _, _, _)
readLoop(g, p, total, readIndex, writeIndex, calls, failAt) ==
  IF total >= Len(p) THEN Ret(g, total, "nil", p, calls, FALSE)
  ELSE LET rd == ringRead(p, total, g.buff, readIndex, writeIndex)
           g1 == [g EXCEPT !.readPoint = @ + rd.n]
           total1 == total + rd.n
       IN IF rd.panic THEN Stop(g, "panic", p, calls, FALSE)
          ELSE IF g1.readPoint >= g1.Length THEN Ret(g1, total1, "EOF", rd.p, calls, FALSE)
          ELSE LET f == fillBuff(g1, failAt # Len(calls) + 1)
               IN IF f.err \in {"fetch", "refused"}
                  THEN Ret(f.g, total1, "fetch", rd.p, calls \o f.calls, f.err = "fetch")
                  ELSE IF f.err = "panic" THEN Stop(f.g, "panic", rd.p, calls \o f.calls, FALSE)
                  ELSE IF rd.n = 0 /\ f.g = g THEN Stop(g, "blocked", p, calls, FALSE)
                  ELSE readLoop(f.g, rd.p, total1, readIndex, writeIndex, calls \o f.calls, failAt)

\* Reader.Read's end-of-file test (ring buffer)
RingAtEOF(rp, len) == rp >= len

\* the error Read pairs with a copy that needed no loop
RingReadErr(rp, len) == IF rp >= len THEN "EOF" ELSE "nil"

\* what Read returns when the fill before the copy fails
RingFillFailed(g, p, calls, fault) == Ret(g, 0, "nil", p, calls, fault)

ReadRing(g0, l, failAt) ==
  LET p == Zero(l)
      distance == g0.writePoint - g0.readPoint
      refill == distance <= 0 \/ distance > g0.buffSize
      f == IF refill THEN fillBuff([g0 EXCEPT !.writePoint = g0.readPoint], failAt # 1)
           ELSE [g |-> g0, err |-> "nil", calls |-> << >>]
      g == f.g
      readIndex == GoRem(g.readPoint, g.buffSize)
      writeIndex == GoRem(g.writePoint, g.buffSize)
  IN IF RingAtEOF(g0.readPoint, g0.Length) THEN Ret(g0, 0, "EOF", p, << >>, FALSE)
     ELSE IF f.err \in {"fetch", "refused"} THEN RingFillFailed(g, p, f.calls, f.err = "fetch")
     ELSE IF f.err = "panic" THEN Stop(g, "panic", p, f.calls, FALSE)
     ELSE IF l <= distance
          THEN LET rd == ringRead(p, 0, g.buff, readIndex, writeIndex)
                   g1 == [g EXCEPT !.readPoint = @ + rd.n]
               IN IF rd.panic THEN Stop(g, "panic", p, f.calls, FALSE)
                  ELSE Ret(g1, rd.n, RingReadErr(g1.readPoint, g1.Length), rd.p, f.calls, FALSE)
          ELSE readLoop(g, p, 0, readIndex, writeIndex, f.calls, failAt)

\* the read position ReadAt(p, off) reads from
ReadAtPoint(g, o) == [g EXCEPT !.readPoint = o]

ReadAtRing(g, l, o, failAt) ==
  IF o < 0 THEN Ret(g, 0, "before", Zero(l), << >>, FALSE)
  ELSE IF o >= g.Length THEN Ret(g, 0, "beyond", Zero(l), << >>, FALSE)
  ELSE ReadRing(ReadAtPoint(g, o), l, failAt)

SeekRing(g0, o, whence) ==
  LET g == IF whence = 0 THEN [g0 EXCEPT !.readPoint = o] ELSE g0
      target == IF whence = 0 THEN o ELSE g0.readPoint + o
  IN IF target > g.Length THEN Ret(g, 0, "seekbeyond", << >>, << >>, FALSE)
     ELSE IF target < 0 THEN Ret(g, 0, "seekbefore", << >>, << >>, FALSE)
     ELSE Ret([g EXCEPT !.readPoint = target], target, "nil", << >>, << >>, FALSE)

\* NewReader (ring buffer): ok says ExpectedLength succeeds
NewRingReader(size, len, ok) ==
  IF ok THEN [buff |-> Zero(size), readPoint |-> 0, writePoint |-> 0, Length |-> len,
              buffSize |-> size, inits |-> 1]
  ELSE [buff |-> << >>, readPoint |-> 0, writePoint |-> 0, Length |-> 0,
        buffSize |-> size, inits |-> 1]

\* NewReader (reader.go) after a successful Initialize, or a Reader literal
\* that initializes on first use
NewBlockReader(bs, len, lazy) ==
  IF lazy THEN [BlockSize |-> bs, blocks |-> << >>, mutex |-> "unlocked",
                initialized |-> FALSE, off |-> 0, length |-> 0, inits |-> 0]
  ELSE [BlockSize |-> IF bs = 0 THEN DefaultBlockSize ELSE bs, blocks |-> << >>,
        mutex |-> "unlocked", initialized |-> TRUE, off |-> 0, length |-> len, inits |-> 1]

\* ========================================================================
\* the state machine
\* ========================================================================
NoCall == [op |-> "none", len |-> 0, arg |-> 0, whence |-> 0, cur |-> 0,
           n |-> 0, err |-> "nil", p |-> << >>, calls |-> << >>, fault |-> FALSE]

Call(op, l, o, whence, cur, c) ==
  [op |-> op, len |-> l, arg |-> o, whence |-> whence, cur |-> cur,
   n |-> c.n, err |-> c.err, p |-> c.p, calls |-> c.calls, fault |-> c.fault]

\* the outcomes the fetcher's Initialize can have when a call runs init
InitOutcomes ==
  IF reader.initialized \/ faults >= MaxFaults \/ fetcher # "conforming" THEN {TRUE} ELSE BOOLEAN

\* which fetcher call of a ring-buffer Read can be made to fail (0: none):
\* one of those the call makes when none fails, the first two at most
RingFailures(c) ==
  IF faults >= MaxFaults \/ fetcher # "conforming" THEN {0} ELSE 0..Min(2, Len(c.calls))

\* the outcomes FetchBlocks can have in a call: it can fail only when the
\* call passes it a range
FetchOutcomes(c) ==
  IF c.calls # << >> /\ c.calls[1] # << >> /\ faults < MaxFaults /\ fetcher = "conforming"
  THEN BOOLEAN ELSE {TRUE}

\* the goroutines that call into one reader, and a goroutine that has made no call
Goroutines == {"g1", "g2"}

Idle ==
  [op |-> "none", len |-> 0, arg |-> 0, first |-> FALSE, ranges |-> << >>,
   n |-> 0, err |-> "nil", p |-> << >>, reqs |-> << >>]

\* an HTTPRanger literal, a reader not yet constructed, and no traffic seen
NewRanger == [validator |-> "", length |-> 0, once |-> "fresh", inits |-> 0]

NoRing ==
  [buff |-> << >>, readPoint |-> 0, writePoint |-> 0, Length |-> 0, buffSize |-> 0, inits |-> 0]

NoTraffic == [initErr |-> "none", fetched |-> FALSE, mismatch |-> FALSE, err |-> "nil"]

\* the argument ranges the calls are drawn from
ReadOffsets == -1..(resLen + 1)

SeekOffsets == (-(resLen + 1))..(resLen + 1)

Init ==
  /\ rev \in {"block", "ring"}
  /\ resLen \in 1..MaxLength
  /\ fetcher \in {"conforming", "noblocks"}
  /\ reader \in {NewBlockReader(bs, resLen, lazy) :
                   bs \in (IF rev = "block" THEN 0..MaxBlockSize ELSE {1}),
                   lazy \in (IF rev = "block" THEN BOOLEAN ELSE {FALSE})}
  /\ ring \in {NewRingReader(size, resLen, ok) :
                   size \in (IF rev = "ring" THEN 1..MaxBuffSize ELSE {1}),
                   ok \in (IF rev = "ring" /\ fetcher = "conforming" THEN BOOLEAN ELSE {TRUE})}
  /\ halt = "run"
  /\ faults = (IF rev = "ring" /\ ring.Length = 0 THEN 1 ELSE 0)
  /\ ranger = NewRanger /\ version = 1 /\ seen = NoTraffic
  /\ pc = [t \in Goroutines |-> "idle"]
  /\ call = [t \in Goroutines |-> Idle]
  /\ last = NoCall

Done(op, l, o, whence, cur, c) ==
  /\ halt' = c.halt
  /\ faults' = (IF c.fault THEN faults + 1 ELSE faults)
  /\ last' = Call(op, l, o, whence, cur, c)

ReadAt ==
  /\ rev = "block" /\ halt = "run"
  /\ \E l \in 0..MaxP, o \in ReadOffsets, initOK \in InitOutcomes :
     \E fetchOK \in FetchOutcomes(ReadAtBlock(reader, l, o, initOK, TRUE)) :
       LET c == ReadAtBlock(reader, l, o, initOK, fetchOK)
       IN reader' = c.s /\ Done("ReadAt", l, o, 0, reader.off, c)
  /\ UNCHANGED <<rev, resLen, fetcher, ring, hvars, pc, call>>

Read ==
  /\ rev = "block" /\ halt = "run"
  /\ \E l \in 0..MaxP, initOK \in InitOutcomes :
     \E fetchOK \in FetchOutcomes(ReadBlock(reader, l, initOK, TRUE)) :
       LET c == ReadBlock(reader, l, initOK, fetchOK)
       IN reader' = c.s /\ Done("Read", l, 0, 0, reader.off, c)
  /\ UNCHANGED <<rev, resLen, fetcher, ring, hvars, pc, call>>

Seek ==
  /\ rev = "block" /\ halt = "run"
  /\ \E o \in SeekOffsets, whence \in 0..2, initOK \in InitOutcomes :
       LET c == SeekBlock(reader, o, whence, initOK)
       IN reader' = c.s /\ Done("Seek", 0, o, whence, reader.off, c)
  /\ UNCHANGED <<rev, resLen, fetcher, ring, hvars, pc, call>>

Length ==
  /\ rev = "block" /\ halt = "run"
  /\ \E initOK \in InitOutcomes :
       LET c == LengthBlock(reader, initOK)
       IN reader' = c.s /\ Done("Length", 0, 0, 0, reader.off, c)
  /\ UNCHANGED <<rev, resLen, fetcher, ring, hvars, pc, call>>

RingReadAt ==
  /\ rev = "ring" /\ halt = "run"
  /\ \E l \in 0..MaxP, o \in ReadOffsets :
     \E failAt \in RingFailures(ReadAtRing(ring, l, o, 0)) :
       LET c == ReadAtRing(ring, l, o, failAt)
       IN ring' = c.s /\ Done("ReadAt", l, o, 0, ring.readPoint, c)
  /\ UNCHANGED <<rev, resLen, fetcher, reader, hvars, pc, call>>

RingRead ==
  /\ rev = "ring" /\ halt = "run"
  /\ \E l \in 0..MaxP :
     \E failAt \in RingFailures(ReadRing(ring, l, 0)) :
       LET c == ReadRing(ring, l, failAt)
       IN ring' = c.s /\ Done("Read", l, 0, 0, ring.readPoint, c)
  /\ UNCHANGED <<rev, resLen, fetcher, reader, hvars, pc, call>>

RingSeek ==
  /\ rev = "ring" /\ halt = "run"
  /\ \E o \in SeekOffsets, whence \in 0..2 :
       LET c == SeekRing(ring, o, whence)
       IN ring' = c.s /\ Done("Seek", 0, o, whence, ring.readPoint, c)
  /\ UNCHANGED <<rev, resLen, fetcher, reader, hvars, pc, call>>

Next ==
  \/ ReadAt
  \/ Read
  \/ Seek
  \/ Length
  \/ RingReadAt
  \/ RingRead
  \/ RingSeek

Spec == Init /\ [][Next]_vars

\* ========================================================================
\* two goroutines calling ReadAt on one block-cache Reader: each step is one
\* section of the code between two lock operations or unsynchronised reads
\* ========================================================================

InitConc ==
  /\ rev \in {"block", "ring"}
  /\ resLen \in 1..MaxLength
  /\ fetcher = "conforming"
  /\ reader \in {NewBlockReader(bs, resLen, lazy) :
                   bs \in (IF rev = "block" THEN 0..MaxBlockSize ELSE {1}),
                   lazy \in (IF rev = "block" THEN BOOLEAN ELSE {FALSE})}
  /\ ring \in {NewRingReader(size, resLen, TRUE) :
                   size \in (IF rev = "ring" THEN 1..MaxBuffSize ELSE {1})}
  /\ halt = "run"
  /\ faults = 0
  /\ ranger = NewRanger /\ version = 1 /\ seen = NoTraffic
  /\ pc = [t \in Goroutines |-> "idle"]
  /\ call = [t \in Goroutines |-> Idle]
  /\ last = NoCall

\* the outcomes of a fetcher call made by a goroutine
ConcOutcomes == IF faults >= MaxFaults THEN {TRUE} ELSE BOOLEAN

\* the goroutine returns (n, err) with p filled
Return(t, n, err, p) ==
  /\ call' = [call EXCEPT ![t].n = n, ![t].err = err, ![t].p = p]
  /\ pc' = [pc EXCEPT ![t] = "done"]

\* a goroutine calls ReadAt(p[l], o)
GoReadAt(t) ==
  /\ rev = "block" /\ pc[t] = "idle" /\ halt = "run"
  /\ \E l \in 0..MaxP, o \in 0..resLen :
       call' = [call EXCEPT ![t] = [Idle EXCEPT !.op = "ReadAt", !.len = l, !.arg = o,
                                                !.first = ~reader.initialized, !.p = Zero(l)]]
  /\ pc' = [pc EXCEPT ![t] = "check"]
  /\ UNCHANGED <<rev, resLen, reader, ring, fetcher, hvars, halt, faults, last>>

\* 'if !r.initialized', read without the lock
GoCheck(t) ==
  /\ pc[t] = "check"
  /\ pc' = [pc EXCEPT ![t] = IF reader.initialized THEN "body" ELSE "init"]
  /\ UNCHANGED <<rev, resLen, reader, ring, fetcher, hvars, halt, faults, call, last>>

\* init takes the write lock and runs up to the fetcher call
GoInitLock(t) ==
  /\ pc[t] = "init" /\ reader.mutex = "unlocked"
  /\ reader' = [initLocked(reader) EXCEPT !.mutex = "locked"]
  /\ pc' = [pc EXCEPT ![t] = "initialize"]
  /\ UNCHANGED <<rev, resLen, ring, fetcher, hvars, halt, faults, call, last>>

\* init calls the fetcher's Initialize, releases the lock and returns; ReadAt
\* returns its error
GoInitialize(t) ==
  /\ pc[t] = "initialize"
  /\ \E ok \in ConcOutcomes :
       /\ reader' = [Initialize(reader, ok) EXCEPT !.mutex = "unlocked"]
       /\ faults' = (IF ok THEN faults ELSE faults + 1)
       /\ IF ok THEN pc' = [pc EXCEPT ![t] = "body"] /\ call' = call
          ELSE Return(t, 0, "init", call[t].p)
  /\ UNCHANGED <<rev, resLen, ring, fetcher, hvars, halt, last>>

\* ReadAt's guards, then the missing ranges, collected under the read lock
GoRanges(t) ==
  /\ pc[t] = "body"
  /\ LET l == call[t].len
         o == call[t].arg
         br == blockRange(o, l, reader.BlockSize)
     IN IF o < 0 THEN Return(t, 0, "before", call[t].p)
        ELSE IF ReadBeyond(o, l, FetcherLength(reader)) THEN Return(t, 0, "beyond", call[t].p)
        ELSE /\ reader.mutex = "unlocked"
             /\ call' = [call EXCEPT ![t].ranges = MissingRanges(reader, br[1], br[2])]
             /\ pc' = [pc EXCEPT ![t] = "fetch"]
  /\ UNCHANGED <<rev, resLen, reader, ring, fetcher, hvars, halt, faults, last>>

\* FetchBlocks and the installation of its blocks, under the write lock; the
\* error return keeps the lock
GoFetch(t) ==
  /\ pc[t] = "fetch" /\ reader.mutex = "unlocked"
  /\ \E ok \in (IF call[t].ranges = << >> THEN {TRUE} ELSE ConcOutcomes) :
       IF ok
       THEN /\ reader' = [reader EXCEPT !.blocks = InstallBlocks(@, FetchBlocks(call[t].ranges, resLen))]
            /\ pc' = [pc EXCEPT ![t] = "copy"]
            /\ UNCHANGED <<faults, call>>
       ELSE /\ reader' = [reader EXCEPT !.mutex = "locked"]
            /\ faults' = faults + 1
            /\ Return(t, 0, "fetch", call[t].p)
  /\ UNCHANGED <<rev, resLen, ring, fetcher, hvars, halt, last>>

\* copyRangeToBuffer, under the read lock
GoCopy(t) ==
  /\ pc[t] = "copy" /\ reader.mutex = "unlocked"
  /\ LET c == copyRangeToBuffer(reader, call[t].p, call[t].arg, << >>)
     IN /\ Return(t, c.n, c.err, c.p)
        /\ halt' = c.halt
  /\ UNCHANGED <<rev, resLen, reader, ring, fetcher, hvars, faults, last>>

\* a goroutine calls ReadAt(p[l], o) on the ring-buffer Reader, which holds no
\* lock: the guards, then 'r.readPoint = off'
GoRingReadAt(t) ==
  /\ rev = "ring" /\ pc[t] = "idle" /\ halt = "run"
  /\ \E l \in 0..MaxP, o \in 0..resLen :
       /\ call' = [call EXCEPT ![t] = [Idle EXCEPT !.op = "ReadAt", !.len = l, !.arg = o,
                                                    !.p = Zero(l),
                                                    !.err = ReadAtRing(ring, 0, o, 0).err]]
       /\ IF ReadAtRing(ring, 0, o, 0).err \in {"before", "beyond"}
          THEN pc' = [pc EXCEPT ![t] = "done"] /\ ring' = ring
          ELSE pc' = [pc EXCEPT ![t] = "read"] /\ ring' = ReadAtPoint(ring, o)
  /\ UNCHANGED <<rev, resLen, reader, fetcher, hvars, halt, faults, last>>

\* the goroutine's Read returned c
RingReturn(t, c) ==
  /\ ring' = c.s
  /\ halt' = c.halt
  /\ faults' = (IF c.fault THEN faults + 1 ELSE faults)
  /\ Return(t, c.n, c.err, c.p)

\* 'return r.Read(p)': the Read reads at the readPoint it finds
GoRingRead(t) ==
  /\ pc[t] = "read" /\ halt = "run"
  /\ \E failAt \in (IF faults >= MaxFaults THEN {0} ELSE {0, 1}) :
       RingReturn(t, ReadRing(ring, call[t].len, failAt))
  /\ UNCHANGED <<rev, resLen, reader, fetcher, hvars, last>>

NextConc ==
  \E t \in Goroutines :
    \/ GoReadAt(t)
    \/ GoCheck(t)
    \/ GoInitLock(t)
    \/ GoInitialize(t)
    \/ GoRanges(t)
    \/ GoFetch(t)
    \/ GoCopy(t)
    \/ GoRingReadAt(t)
    \/ GoRingRead(t)

SpecConc == InitConc /\ [][NextConc]_vars

\* ========================================================================
\* the HTTPRanger of http.go, called by two goroutines, and the ring-buffer
\* Reader that NewReader builds on it
\* ========================================================================

\* status codes a server answers with, around the limits the code tests
Statuses == {199, 200, 206, 299, 300, 404, 412, 500}

statusIsAcceptable(status) == status >= 200 /\ status < 300

\* the headers a server holding version k of the resource can send: a strong
\* (quoted) ETag, a weak one, or none; a Last-Modified date or none
StrongETag(k) == IF k = 1 THEN "\"v1\"" ELSE "\"v2\""

WeakETag(k) == IF k = 1 THEN "W/\"v1\"" ELSE "W/\"v2\""

ETags(k) == {"", WeakETag(k), StrongETag(k)}

LastModifieds(k) == {"", IF k = 1 THEN "Mon, 01 Jan" ELSE "Tue, 02 Jan"}

\* etag[0] == '"'
StartsWithQuote(etag) == etag \in {StrongETag(1), StrongETag(2)}

\* a request that ends in a transport error, and the responses to the HEAD,
\* to the GET of bytes=0-0 and to a data request
TransportError ==
  [transport |-> TRUE, status |-> 0, acceptRanges |-> FALSE, etag |-> "", lastModified |-> "",
   contentLength |-> 0, contentRange |-> "", contentType |-> "", blocks |-> 0]

HeadResponses(k) ==
  {TransportError} \cup
  [transport : {FALSE}, status : Statuses, acceptRanges : BOOLEAN, etag : ETags(k),
   lastModified : LastModifieds(k), contentLength : {resLen}, contentRange : {""},
   contentType : {""}, blocks : {0}]

GetResponses(k) ==
  {TransportError} \cup
  [transport : {FALSE}, status : Statuses, acceptRanges : BOOLEAN, etag : ETags(k),
   lastModified : LastModifieds(k), contentLength : {1},
   contentRange : {"", "bytes 0-0/*", "bytes 0-0/L"}, contentType : {""}, blocks : {0}]

DataResponses(k) ==
  {TransportError} \cup
  [transport : {FALSE}, status : Statuses, acceptRanges : {TRUE}, etag : ETags(k),
   lastModified : LastModifieds(k), contentLength : {1}, contentRange : {""},
   contentType : {"", "application/octet-stream"}, blocks : 0..1]

\* a validatorFromResponse that takes any ETag, weak ones too
validatorFromResponse_AnyETag(resp) ==
  IF resp.etag # "" THEN [validator |-> resp.etag, err |-> "nil"]
  ELSE IF resp.lastModified # "" THEN [validator |-> resp.lastModified, err |-> "nil"]
  ELSE [validator |-> "", err |-> "novalidator"]

validatorFromResponse(resp) ==
  IF resp.etag # "" /\ StartsWithQuote(resp.etag) THEN [validator |-> resp.etag, err |-> "nil"]
  ELSE IF resp.lastModified # "" THEN [validator |-> resp.lastModified, err |-> "nil"]
  ELSE [validator |-> "", err |-> "novalidator"]

\* init's once body from the Accept-Ranges test on: the validator is stored
\* before the length is read
initFromResponse(r, resp, isHeadMethod) ==
  IF ~resp.acceptRanges THEN [r |-> r, err |-> "noranges"]
  ELSE IF validatorFromResponse(resp).err # "nil" THEN [r |-> r, err |-> "novalidator"]
  ELSE LET r1 == [r EXCEPT !.validator = validatorFromResponse(resp).validator]
       IN IF isHeadMethod THEN [r |-> [r1 EXCEPT !.length = resp.contentLength], err |-> "nil"]
          ELSE IF resp.contentRange = "bytes 0-0/L"
               THEN [r |-> [r1 EXCEPT !.length = resLen], err |-> "nil"]
               ELSE [r |-> r1, err |-> "contentrange"]

\* an init that gives up when the HEAD's status is not acceptable
initBody_HeadOnly(r0, head, get) ==
  LET r == [r0 EXCEPT !.once = "done", !.inits = @ + 1]
  IN IF head.transport THEN [r |-> r, err |-> "transport", reqs |-> <<"HEAD">>]
     ELSE IF statusIsAcceptable(head.status)
          THEN initFromResponse(r, head, TRUE) @@ [reqs |-> <<"HEAD">>]
     ELSE [r |-> r, err |-> "status", reqs |-> <<"HEAD">>]

\* the body init passes to once.Do: the HEAD, the GET when the HEAD's status
\* is not acceptable; the requests it made are returned with its error
initBody(r0, head, get) ==
  LET r == [r0 EXCEPT !.once = "done", !.inits = @ + 1]
  IN IF head.transport THEN [r |-> r, err |-> "transport", reqs |-> <<"HEAD">>]
     ELSE IF statusIsAcceptable(head.status)
          THEN initFromResponse(r, head, TRUE) @@ [reqs |-> <<"HEAD">>]
     ELSE IF get.transport THEN [r |-> r, err |-> "transport", reqs |-> <<"HEAD", "GET 0-0">>]
     ELSE IF ~statusIsAcceptable(get.status)
          THEN [r |-> r, err |-> "status", reqs |-> <<"HEAD", "GET 0-0">>]
     ELSE initFromResponse(r, get, FALSE) @@ [reqs |-> <<"HEAD", "GET 0-0">>]

\* a validateResponse that looks at the status only
validateResponse_StatusOnly(validator, resp) ==
  IF resp.status = 412 THEN "changed"
  ELSE IF resp.status = 404 THEN "notfound"
  ELSE IF ~statusIsAcceptable(resp.status) THEN "status"
  ELSE "nil"

validateResponse(validator, resp) ==
  IF resp.status = 412 THEN "changed"
  ELSE IF resp.status = 404 THEN "notfound"
  ELSE IF ~statusIsAcceptable(resp.status) THEN "status"
  ELSE IF validatorFromResponse(resp).err # "nil"
          \/ validatorFromResponse(resp).validator # validator THEN "changed"
  ELSE "nil"

\* FetchRanges from the response on: the error it returns for nranges ranges
fetchError(r, nranges, resp) ==
  IF resp.transport THEN "transport"
  ELSE IF validateResponse(r.validator, resp) # "nil" THEN validateResponse(r.validator, resp)
  ELSE IF resp.contentType = "" THEN "mime"
  ELSE IF resp.blocks # nranges THEN "short"
  ELSE "nil"

\* the response is a 2xx whose validator is absent or is not the ranger's
Mismatch(r, resp) ==
  /\ ~resp.transport /\ statusIsAcceptable(resp.status)
  /\ (validatorFromResponse(resp).err # "nil" \/ validatorFromResponse(resp).validator # r.validator)

\* either the two goroutines call the HTTPRanger themselves (no Reader), or
\* one of them builds a Reader on it with NewReader and reads from that
InitHTTP ==
  /\ rev \in {"none", "ring"}
  /\ resLen \in 1..MaxLength
  /\ fetcher = "conforming"
  /\ reader = NewBlockReader(0, resLen, FALSE)
  /\ ring = NoRing
  /\ halt = "run"
  /\ faults = 0
  /\ ranger = NewRanger /\ version = 1 /\ seen = NoTraffic
  /\ pc = [t \in Goroutines |-> "idle"]
  /\ call = [t \in Goroutines |-> Idle]
  /\ last = NoCall

\* the range lists the goroutines pass to FetchRanges
RangeLists == {<< >>, <<[Start |-> 0, End |-> 0]>>}

\* a goroutine calls ExpectedLength, FetchRanges or NewReader(ranger, size);
\* FetchRanges returns at once when it is given no range
HTTPCall(t) ==
  /\ pc[t] = "idle" /\ halt = "run"
  /\ \E op \in (IF rev = "none" THEN {"ExpectedLength", "FetchRanges"} ELSE {"NewReader"}) :
     \E ranges \in (IF op = "FetchRanges" THEN RangeLists ELSE {<< >>}) :
     \E size \in (IF op = "NewReader" THEN 1..MaxBuffSize ELSE {0}) :
       /\ op = "NewReader" => (ring = NoRing /\ \A u \in Goroutines : call[u].op # "NewReader")
       /\ call' = [call EXCEPT ![t] = [Idle EXCEPT !.op = op, !.ranges = ranges, !.len = size,
                                                    !.first = (ranger.once = "fresh")]]
       /\ pc' = [pc EXCEPT ![t] = IF op = "FetchRanges" /\ ranges = << >> THEN "done" ELSE "once"]
  /\ UNCHANGED <<rev, resLen, reader, ring, fetcher, hvars, halt, faults, last>>

\* what the caller of init does with init's error, r being the ranger after init
AfterInit(t, r, err, reqs) ==
  LET c == [call[t] EXCEPT !.err = err, !.reqs = reqs]
  IN IF c.op = "FetchRanges" /\ err = "nil"
     THEN /\ call' = [call EXCEPT ![t] = c]
          /\ pc' = [pc EXCEPT ![t] = "request"]
          /\ ring' = ring
     ELSE /\ call' = [call EXCEPT ![t] = [c EXCEPT !.n = IF c.op = "FetchRanges" THEN 0 ELSE r.length]]
          /\ pc' = [pc EXCEPT ![t] = "done"]
          /\ ring' = IF c.op = "NewReader" THEN NewRingReader(c.len, r.length, err = "nil") ELSE ring

\* the once body ended as b says
InitDone(t, b) ==
  /\ ranger' = b.r
  /\ seen' = [seen EXCEPT !.initErr = b.err]
  /\ AfterInit(t, b.r, b.err, b.reqs)

\* init: the first caller to reach once.Do runs the body, with outerErr its
\* own local variable; a later caller's once.Do returns without running it
HTTPInit(t) ==
  /\ pc[t] = "once"
  /\ IF ranger.once = "fresh"
     THEN \E head \in HeadResponses(version) :
          \E get \in (IF ~head.transport /\ ~statusIsAcceptable(head.status)
                      THEN GetResponses(version) ELSE {TransportError}) :
            InitDone(t, initBody(ranger, head, get))
     ELSE /\ AfterInit(t, ranger, "nil", << >>)
          /\ UNCHANGED <<ranger, seen>>
  /\ UNCHANGED <<rev, resLen, reader, fetcher, version, halt, faults, last>>

\* FetchRanges sends its request and validates the response
HTTPRequest(t) ==
  /\ pc[t] = "request"
  /\ \E resp \in DataResponses(version) :
       LET err == fetchError(ranger, Len(call[t].ranges), resp)
       IN call' = [call EXCEPT ![t].err = err,
                               ![t].n = IF err = "nil" THEN Len(call[t].ranges) ELSE 0,
                               ![t].reqs = @ \o <<"GET">>]
  /\ pc' = [pc EXCEPT ![t] = "done"]
  /\ UNCHANGED <<rev, resLen, reader, ring, fetcher, hvars, halt, faults, last>>

\* the resource changes on the server
Mutate ==
  /\ version = 1
  /\ version' = 2
  /\ UNCHANGED <<rev, resLen, reader, ring, fetcher, ranger, seen, halt, faults, pc, call, last>>

\* the responses a Reader's one-range request is answered with: complete
\* bodies, and one status of each class
ReaderResponses(k) ==
  {TransportError} \cup
  [transport : {FALSE}, status : {200, 404, 412, 500}, acceptRanges : {TRUE}, etag : ETags(k),
   lastModified : LastModifieds(k), contentLength : {1}, contentRange : {""},
   contentType : {"application/octet-stream"}, blocks : {1}]

\* what FetchRanges can make of the server's response to a one-range request
FetchResults ==
  {[err |-> fetchError(ranger, 1, resp), mismatch |-> Mismatch(ranger, resp)] :
     resp \in ReaderResponses(version)}

\* the Reader's ReadAt returns c, the response to its request having the result f
ReadAtDone(l, o, c, f) ==
  /\ ring' = c.s
  /\ halt' = c.halt
  /\ last' = Call("ReadAt", l, o, 0, ring.readPoint, c)
  /\ seen' = IF c.calls = << >> THEN [NoTraffic EXCEPT !.initErr = seen.initErr]
             ELSE [seen EXCEPT !.fetched = TRUE, !.mismatch = f.mismatch, !.err = f.err]

\* ReadAt on the Reader NewReader returned: the first FetchRanges call it
\* makes gets a response with the result f
HTTPReadAt ==
  /\ ring # NoRing /\ halt = "run"
  /\ \E f \in FetchResults, l \in 0..MaxHTTPRead, o \in 0..(resLen - 1) :
       ReadAtDone(l, o, ReadAtRing(ring, l, o, IF f.err = "nil" THEN 0 ELSE 1), f)
  /\ UNCHANGED <<rev, resLen, reader, fetcher, ranger, version, faults, pc, call>>

NextHTTP ==
  \/ \E t \in Goroutines : HTTPCall(t) \/ HTTPInit(t) \/ HTTPRequest(t)
  \/ Mutate
  \/ HTTPReadAt

SpecHTTP == InitHTTP /\ [][NextHTTP]_vars

\* ========================================================================
\* validateResponse applied to every response, for every recorded validator
\* ========================================================================

\* the validators a ranger can hold: none (no successful init), or one taken
\* from a response about either version
Validators ==
  {""} \cup {validatorFromResponse(resp).validator : resp \in DataResponses(1) \cup DataResponses(2)}

InitValidate ==
  /\ rev = "none"
  /\ resLen = 1
  /\ fetcher = "conforming"
  /\ reader = NewBlockReader(0, resLen, FALSE)
  /\ ring = NoRing
  /\ halt = "run"
  /\ faults = 0
  /\ version \in {1, 2}
  /\ ranger \in {[NewRanger EXCEPT !.validator = v, !.once = "done", !.inits = 1] : v \in Validators}
  /\ seen \in {[resp |-> resp, result |-> "none"] : resp \in DataResponses(version) \ {TransportError}}
  /\ pc = [t \in Goroutines |-> "idle"]
  /\ call = [t \in Goroutines |-> Idle]
  /\ last = NoCall

Validate ==
  /\ seen.result = "none"
  /\ seen' = [seen EXCEPT !.result = validateResponse(ranger.validator, seen.resp)]
  /\ UNCHANGED <<rev, resLen, reader, ring, fetcher, ranger, version, halt, faults, pc, call, last>>

SpecValidate == InitValidate /\ [][Validate]_vars

\* ========================================================================
\* NewReader on an HTTPRanger, for every answer the server can give to the
\* HEAD and to the GET of bytes=0-0
\* ========================================================================

\* the statuses on both sides of the limits of statusIsAcceptable, and the 404
\* of a resource that is absent
DiscoveryStatuses == {200, 299, 300, 404}

\* the answers to the HEAD, and the answers to the GET that can follow the
\* answer h to the HEAD
DiscoveryResponses == {h \in HeadResponses(1) : h.transport \/ h.status \in DiscoveryStatuses}

FallbackResponses(h) ==
  IF ~h.transport /\ ~statusIsAcceptable(h.status)
  THEN {g \in GetResponses(1) : g.transport \/ g.status \in DiscoveryStatuses}
  ELSE {TransportError}

\* init on a ranger whose once has run: the body is skipped and outerErr is nil
initAgain(r) == [r |-> r, err |-> "nil", reqs |-> << >>]

InitDiscover ==
  /\ rev = "ring"
  /\ resLen \in 1..MaxLength
  /\ fetcher = "conforming"
  /\ reader = NewBlockReader(0, resLen, FALSE)
  /\ ring = NoRing
  /\ halt = "run"
  /\ faults = 0
  /\ ranger = NewRanger /\ version = 1
  /\ seen \in UNION {{[head |-> h, get |-> g, err |-> "none", reqs |-> << >>,
                       againErr |-> "none", againN |-> 0] : g \in FallbackResponses(h)} :
                     h \in DiscoveryResponses}
  /\ pc = [t \in Goroutines |-> "idle"]
  /\ call = [t \in Goroutines |-> Idle]
  /\ last = NoCall

\* NewReader has called ExpectedLength, whose init ended as b says
DiscoverDone(size, b) ==
  /\ ranger' = b.r
  /\ seen' = [seen EXCEPT !.err = b.err, !.reqs = b.reqs]
  /\ ring' = NewRingReader(size, b.r.length, b.err = "nil")

\* NewReader(ranger, size): the first call into the ranger
Discover ==
  /\ seen.err = "none"
  /\ \E size \in 1..MaxBuffSize : DiscoverDone(size, initBody(ranger, seen.head, seen.get))
  /\ UNCHANGED <<rev, resLen, reader, fetcher, version, halt, faults, pc, call, last>>

\* a later ExpectedLength call on the same ranger
DiscoverAgain ==
  /\ seen.err # "none" /\ seen.againErr = "none"
  /\ seen' = [seen EXCEPT !.againErr = initAgain(ranger).err, !.againN = initAgain(ranger).r.length,
                          !.reqs = @ \o initAgain(ranger).reqs]
  /\ UNCHANGED <<rev, resLen, reader, ring, fetcher, ranger, version, halt, faults, pc, call, last>>

\* ReadAt on the Reader that NewReader returned, its requests answered in full
DiscoverReadAt ==
  /\ ring # NoRing /\ halt = "run"
  /\ \E l \in 0..MaxHTTPRead, o \in 0..(resLen - 1) :
       /\ ring' = ReadAtRing(ring, l, o, 0).s
       /\ halt' = ReadAtRing(ring, l, o, 0).halt
       /\ last' = Call("ReadAt", l, o, 0, ring.readPoint, ReadAtRing(ring, l, o, 0))
  /\ UNCHANGED <<rev, resLen, reader, fetcher, hvars, faults, pc, call>>

NextDiscover ==
  \/ Discover
  \/ DiscoverAgain
  \/ DiscoverReadAt

SpecDiscover == InitDiscover /\ [][NextDiscover]_vars

\* ========================================================================
\* FetchRanges from the accepted response on: the blocks it makes of the body
\* ========================================================================

\* io.Reader over a body: the bytes still to come, the error at their end
\* (io.EOF or another one), and whether that error comes with the last bytes
\* or on the next Read
BodyReader(stream, ending, eofWithData) ==
  [stream |-> stream, ending |-> ending, eofWithData |-> eofWithData]

\* readUntilErr(r, p) for len(p) = l: the bytes read, the error, the reader afterwards
readUntilErr(r, l) ==
  IF l <= 0 THEN [data |-> << >>, err |-> "nil", r |-> r]
  ELSE IF Len(r.stream) > l
  THEN [data |-> SubSeq(r.stream, 1, l), err |-> "nil",
        r |-> [r EXCEPT !.stream = SubSeq(r.stream, l + 1, Len(r.stream))]]
  ELSE IF Len(r.stream) = l
  THEN [data |-> r.stream, err |-> IF r.eofWithData THEN r.ending ELSE "nil",
        r |-> [r EXCEPT !.stream = << >>]]
  ELSE [data |-> r.stream, err |-> r.ending, r |-> [r EXCEPT !.stream = << >>]]

\* 'if n > 0': any data having been read dirties a block
dirties(n, l) == n > 0

\* the loop of fillBlocksFromContiguousReader over blox[i:], c blocks dirtied so far
RECURSIVE fillLoop(_, _, _, _)
fillLoop(blox, i, r, c) ==
  IF i > Len(blox) THEN [blox |-> blox, c |-> c, err |-> "nil"]
  ELSE LET rd == readUntilErr(r, blox[i].Length)
           dirty == dirties(Len(rd.data), blox[i].Length)
           blox1 == IF dirty THEN [blox EXCEPT ![i].Data = rd.data] ELSE blox
           c1 == IF dirty THEN c + 1 ELSE c
       IN IF rd.err # "nil"
          THEN [blox |-> blox1, c |-> c1, err |-> IF rd.err = "EOF" THEN "nil" ELSE rd.err]
          ELSE fillLoop(blox1, i + 1, rd.r, c1)

\* fillBlocksFromContiguousReader(blox[from:], r)
fillBlocksFromContiguousReader(blox, from, r) == fillLoop(blox, from + 1, r, 0)

\* a fillBlocksFromMultipartReader that hands every part the whole of blox
RECURSIVE fillBlocksFromMultipartReader_FromStart(_, _, _, _)
fillBlocksFromMultipartReader_FromStart(blox, parts, j, c) ==
  IF j > Len(parts) THEN [blox |-> blox, c |-> c, err |-> "nil"]
  ELSE LET f == fillBlocksFromContiguousReader(blox, 0, parts[j])
       IN IF f.err # "nil" THEN [blox |-> f.blox, c |-> c, err |-> f.err]
          ELSE fillBlocksFromMultipartReader_FromStart(f.blox, parts, j + 1, c + f.c)

\* fillBlocksFromMultipartReader: NextPart ends with io.EOF after the last part
RECURSIVE fillBlocksFromMultipartReader(_, _, _, _)
fillBlocksFromMultipartReader(blox, parts, j, c) ==
  IF j > Len(parts) THEN [blox |-> blox, c |-> c, err |-> "nil"]
  ELSE LET f == fillBlocksFromContiguousReader(blox, c, parts[j])
       IN IF f.err # "nil" THEN [blox |-> f.blox, c |-> c, err |-> f.err]
          ELSE fillBlocksFromMultipartReader(f.blox, parts, j + 1, c + f.c)

\* FetchRanges once the response is accepted: the blocks and the error
fillBlocks(ranges, body) ==
  LET blox == [i \in 1..Len(ranges) |->
                 [Length |-> ranges[i].End - ranges[i].Start + 1, Data |-> << >>]]
      f == IF body.kind = "multipart"
           THEN fillBlocksFromMultipartReader(blox, body.parts, 1, 0)
           ELSE fillBlocksFromContiguousReader(blox, 0, body.parts[1])
  IN IF f.err # "nil" THEN [blocks |-> << >>, err |-> f.err]
     ELSE IF f.c # Len(blox) THEN [blocks |-> << >>, err |-> "short"]
     ELSE [blocks |-> f.blox, err |-> "nil"]

\* the byte ranges of a resource of len bytes, and the lists of one to three
\* of them, ascending and apart
ByteRanges(len) == {g \in [Start : 0..(len - 1), End : 0..(len - 1)] : g.Start <= g.End}

ByteRangeLists(len) ==
  {<<g>> : g \in ByteRanges(len)} \cup
  {l \in {<<g, h>> : g \in ByteRanges(len), h \in ByteRanges(len)} : l[2].Start > l[1].End} \cup
  {l \in {<<g, h, k>> : g \in ByteRanges(len), h \in ByteRanges(len), k \in ByteRanges(len)} :
     l[2].Start > l[1].End /\ l[3].Start > l[2].End}

\* the bytes of the ranges, one after the other
RECURSIVE RangesBytes(_)
RangesBytes(ranges) ==
  IF ranges = << >> THEN << >>
  ELSE ResourceBytes(ranges[1].Start, ranges[1].End + 1) \o RangesBytes(Tail(ranges))

\* the ways to cut ranges into runs: each run is one range, or several that
\* follow each other without a gap and can be sent as one range
RECURSIVE Runs(_)
Runs(ranges) ==
  IF ranges = << >> THEN {<< >>}
  ELSE UNION {{<<SubSeq(ranges, 1, m)>> \o rest : rest \in Runs(SubSeq(ranges, m + 1, Len(ranges)))} :
              m \in {m \in 1..Len(ranges) :
                       \A i \in 1..(m - 1) : ranges[i + 1].Start = ranges[i].End + 1}}

\* the multipart bodies that answer ranges in full: one part per run, in order
RunBodies(ranges) ==
  {[kind |-> "multipart",
    parts |-> [j \in 1..Len(runs) |-> BodyReader(RangesBytes(runs[j]), "EOF", w)]] :
     runs \in Runs(ranges), w \in BOOLEAN}

\* the bodies a server can answer the request for ranges with: the bytes of
\* the ranges up to some point as one stream, one part per range that holds
\* the bytes of its range up to some point, or one part per run of ranges
Bodies(ranges) ==
  RunBodies(ranges) \cup
  {[kind |-> "contiguous",
    parts |-> <<BodyReader(SubSeq(RangesBytes(ranges), 1, k), ending, w)>>] :
     k \in 0..Len(RangesBytes(ranges)), ending \in {"EOF", "unexpected"}, w \in BOOLEAN}
  \cup
  {[kind |-> "multipart",
    parts |-> [i \in 1..Len(ranges) |->
                 BodyReader(SubSeq(RangesBytes(<<ranges[i]>>), 1,
                                   Min(k[i], Len(RangesBytes(<<ranges[i]>>)))), "EOF", w)]] :
     k \in [1..Len(ranges) -> 0..MaxLength], w \in BOOLEAN}

InitFill ==
  /\ rev = "none"
  /\ resLen \in 1..MaxLength
  /\ fetcher = "conforming"
  /\ reader = NewBlockReader(0, resLen, FALSE)
  /\ ring = NoRing
  /\ halt = "run"
  /\ faults = 0
  /\ ranger = [NewRanger EXCEPT !.validator = StrongETag(1), !.length = resLen,
                                !.once = "done", !.inits = 1]
  /\ version = 1
  /\ seen \in UNION {{[ranges |-> ranges, body |-> body, done |-> FALSE,
                       blocks |-> << >>, err |-> "nil"] : body \in Bodies(ranges)} :
                     ranges \in ByteRangeLists(resLen)}
  /\ pc = [t \in Goroutines |-> "idle"]
  /\ call = [t \in Goroutines |-> Idle]
  /\ last = NoCall

Fill ==
  /\ ~seen.done
  /\ seen' = [seen EXCEPT !.done = TRUE,
                          !.blocks = fillBlocks(seen.ranges, seen.body).blocks,
                          !.err = fillBlocks(seen.ranges, seen.body).err]
  /\ UNCHANGED <<rev, resLen, reader, ring, fetcher, ranger, version, halt, faults, pc, call, last>>

SpecFill == InitFill /\ [][Fill]_vars

\* ========================================================================
\* blockRange on every operand an int64 offset, an int length and an int block
\* size can hold (int is as wide as int64)
\* ========================================================================

\* the largest int64, and the value an int64 holds after an addition or a
\* subtraction whose exact result is x: Go's signed arithmetic wraps around
MaxInt64 == 2^(IntBits - 1) - 1

Int64(x) == ((x + 2^(IntBits - 1)) % 2^IntBits) - 2^(IntBits - 1)

\* blockRange with the operations of the machine's integers
blockRangeInt(off, length, blockSize) ==
  LET startBlock == GoDiv(off, blockSize)
      endBlock == GoDiv(Int64(off + length), blockSize)
      endBlockOff == GoRem(Int64(off + length), blockSize)
      nblocks == Int64(endBlock - startBlock)
  IN <<startBlock, IF endBlockOff > 0 THEN Int64(nblocks + 1) ELSE nblocks>>

InitRange ==
  /\ rev = "none"
  /\ resLen = 1
  /\ fetcher = "conforming"
  /\ reader = NewBlockReader(0, resLen, FALSE)
  /\ ring = NoRing
  /\ halt = "run"
  /\ faults = 0
  /\ ranger = NewRanger /\ version = 1
  /\ seen \in [off : 0..MaxInt64, length : 0..MaxInt64, blockSize : 1..MaxInt64,
               done : {FALSE}, startBlock : {0}, nblocks : {0}]
  /\ pc = [t \in Goroutines |-> "idle"]
  /\ call = [t \in Goroutines |-> Idle]
  /\ last = NoCall

BlockRange ==
  /\ ~seen.done
  /\ seen' = [seen EXCEPT !.done = TRUE,
                          !.startBlock = blockRangeInt(seen.off, seen.length, seen.blockSize)[1],
                          !.nblocks = blockRangeInt(seen.off, seen.length, seen.blockSize)[2]]
  /\ UNCHANGED <<rev, resLen, reader, ring, fetcher, ranger, version, halt, faults, pc, call, last>>

SpecRange == InitRange /\ [][BlockRange]_vars

\* ========================================================================
\* construction with a configured size, then reads
\* ========================================================================

\* the sizes a caller configures: negative, zero, positive
ConfiguredSizes == -1..MaxBlockSize

\* NewReader(fetcher, size...) of the ring-buffer Reader, ExpectedLength
\* answering len: the reader and the error
NewReader(given, size, len) ==
  LET buffSize == IF given THEN size ELSE defaultBuffSize
  IN IF buffSize <= 0
     THEN [r |-> [buff |-> << >>, readPoint |-> 0, writePoint |-> 0, Length |-> 0,
                  buffSize |-> buffSize, inits |-> 0],
           err |-> "size"]
     ELSE [r |-> NewRingReader(buffSize, len, TRUE), err |-> "nil"]

\* a caller about to construct a reader: a Reader literal of reader.go with
\* its BlockSize field set (0: left unset), or a call of the ring-buffer
\* NewReader with a size (without one it allocates defaultBuffSize bytes)
InitSize ==
  /\ rev \in {"block", "ring"}
  /\ resLen \in 1..MaxLength
  /\ fetcher = "conforming"
  /\ reader = NewBlockReader(0, resLen, TRUE)
  /\ ring = NoRing
  /\ halt = "run"
  /\ faults = 0
  /\ ranger = NewRanger /\ version = 1
  /\ seen \in {c \in [given : BOOLEAN, size : ConfiguredSizes, err : {"none"}] :
                 IF rev = "block" THEN c.given = (c.size # 0) ELSE c.given}
  /\ pc = [t \in Goroutines |-> "idle"]
  /\ call = [t \in Goroutines |-> Idle]
  /\ last = NoCall

\* the construction: the literal is taken as it is, NewReader validates
Construct ==
  /\ seen.err = "none"
  /\ IF rev = "block"
     THEN /\ reader' = NewBlockReader(seen.size, resLen, TRUE)
          /\ seen' = [seen EXCEPT !.err = "nil"]
          /\ ring' = ring
     ELSE /\ ring' = NewReader(seen.given, seen.size, resLen).r
          /\ seen' = [seen EXCEPT !.err = NewReader(seen.given, seen.size, resLen).err]
          /\ reader' = reader
  /\ UNCHANGED <<rev, resLen, fetcher, ranger, version, halt, faults, pc, call, last>>

\* ReadAt on the reader the construction returned without an error
SizeReadAt ==
  /\ seen.err = "nil" /\ halt = "run"
  /\ \E l \in 0..MaxP, o \in 0..resLen :
       IF rev = "block"
       THEN /\ reader' = ReadAtBlock(reader, l, o, TRUE, TRUE).s
            /\ Done("ReadAt", l, o, 0, reader.off, ReadAtBlock(reader, l, o, TRUE, TRUE))
            /\ ring' = ring
       ELSE /\ ring' = ReadAtRing(ring, l, o, 0).s
            /\ Done("ReadAt", l, o, 0, ring.readPoint, ReadAtRing(ring, l, o, 0))
            /\ reader' = reader
  /\ UNCHANGED <<rev, resLen, fetcher, hvars, pc, call>>

NextSize ==
  \/ Construct
  \/ SizeReadAt

SpecSize == InitSize /\ [][NextSize]_vars

TypeOK ==
  /\ rev \in {"block", "ring"}
  /\ halt \in {"run", "panic", "blocked"}
  /\ faults \in 0..MaxFaults
  /\ fetcher \in {"conforming", "noblocks"}

\* ========================================================================
\* the claims
\* ========================================================================

\* the length the reader works with, and the offset the next Read starts at
ReaderLength == IF rev = "block" THEN reader.length ELSE ring.Length

CurrentOffset == IF rev = "block" THEN reader.off ELSE ring.readPoint

\* the last call returned to its caller (it neither panicked nor blocked)
Returned == halt = "run"

\* initialization succeeded, the fetcher keeps its contract and none of its
\* calls has failed so far
Healthy == faults = 0 /\ ReaderLength = resLen /\ fetcher = "conforming"

\* where the last Read or ReadAt started reading
ReadStart == IF last.op = "ReadAt" THEN last.arg ELSE last.cur

\* the absolute offset the last Seek asked for
SeekTarget ==
  CASE last.whence = 0 -> last.arg
    [] last.whence = 1 -> last.cur + last.arg
    [] last.whence = 2 -> ReaderLength + last.arg

\* C1: content fidelity. A ReadAt(p, offset) with 0 <= offset and
\* offset + len(p) <= L, served by a fetcher that did not fail, returns
\* n = len(p) and fills p with the resource bytes [offset, offset + len(p)).
C1_ContentFidelity ==
  (last.op = "ReadAt" /\ Healthy /\ last.arg >= 0 /\ last.arg + last.len <= resLen)
    => /\ Returned
       /\ last.n = last.len
       /\ last.p = ResourceBytes(last.arg, last.arg + last.len)

\* C2: a Read reads at current_offset and advances it by exactly n, so
\* successive Reads return consecutive slices of the resource: the n bytes a
\* Read returns are the resource bytes [current_offset, current_offset + n).
C2_SequentialRead ==
  (last.op = "Read" /\ Healthy /\ Returned /\ last.cur >= 0)
    => /\ CurrentOffset = last.cur + last.n
       /\ last.n <= last.len
       /\ SubSeq(last.p, 1, last.n) = ResourceBytes(last.cur, last.cur + last.n)

\* C3: ReadAt never changes current_offset, whether it succeeds or fails.
C3_ReadAtKeepsOffset ==
  last.op = "ReadAt" => CurrentOffset = last.cur

\* C4: Seek(offset, END) with -L <= offset <= 0 succeeds, sets
\* current_offset to L + offset and returns that value.
C4_SeekFromEnd ==
  (last.op = "Seek" /\ Healthy /\ last.whence = 2
     /\ -ReaderLength <= last.arg /\ last.arg <= 0)
    => /\ last.err = "nil"
       /\ last.n = ReaderLength + last.arg
       /\ CurrentOffset = ReaderLength + last.arg

\* C5: Seek returns an error exactly when the resulting absolute offset
\* (0 + offset, current + offset, L + offset) is negative or greater than L.
C5_SeekErrors ==
  (last.op = "Seek" /\ Healthy /\ last.cur >= 0 /\ last.cur <= ReaderLength)
    => (last.err # "nil" <=> (SeekTarget < 0 \/ SeekTarget > ReaderLength))

\* C6: end-of-stream law. A Read at current_offset = L returns
\* (0, END_OF_STREAM) and makes no FetchRanges/FetchBlocks call, for every
\* buffer length.
C6_EndOfStreamLaw ==
  (last.op = "Read" /\ last.cur = ReaderLength)
    => /\ Returned
       /\ last.n = 0
       /\ last.err = "EOF"
       /\ last.calls = << >>
       /\ CurrentOffset = last.cur

\* C6 witness: a Read at the end of a resource of positive length, into a
\* buffer that has room, after the offset was moved there
C6_Witness ==
  /\ last.op = "Read" /\ last.cur = ReaderLength /\ ReaderLength = resLen
  /\ last.len > 0 /\ last.n = 0 /\ last.err = "EOF"

\* C7: a Read or ReadAt that ends exactly at L (len(p) > 0) returns
\* n = len(p) with END_OF_STREAM; one that ends before L returns n = len(p)
\* with a nil error.
C7_ReadToEnd ==
  ((last.op = "Read" \/ last.op = "ReadAt") /\ Healthy /\ ReadStart >= 0
     /\ ReadStart + last.len <= resLen
     /\ (ReadStart + last.len = resLen => last.len > 0))
    => /\ Returned
       /\ last.n = last.len
       /\ last.err = (IF ReadStart + last.len = resLen THEN "EOF" ELSE "nil")

\* C8: a read that straddles L (0 <= offset < L < offset + len(p)) returns
\* n = L - offset, the resource bytes [offset, L) and END_OF_STREAM.
C8_StraddlingRead ==
  ((last.op = "Read" \/ last.op = "ReadAt") /\ Healthy /\ ReadStart >= 0
     /\ ReadStart < resLen /\ ReadStart + last.len > resLen)
    => /\ Returned
       /\ last.n = resLen - ReadStart
       /\ SubSeq(last.p, 1, last.n) = ResourceBytes(ReadStart, resLen)
       /\ last.err = "EOF"

\* C9: a ReadAt with offset < 0 or offset >= L returns n = 0 with an
\* out-of-range error that is not END_OF_STREAM and calls no
\* FetchRanges/FetchBlocks, for every buffer length.
C9_OutOfRange ==
  (last.op = "ReadAt" /\ faults = 0 /\ (last.arg < 0 \/ last.arg >= ReaderLength))
    => /\ Returned
       /\ last.n = 0
       /\ last.err \notin {"nil", "EOF"}
       /\ last.calls = << >>

\* C10: a ReadAt that returns n < len(p) returns a non-nil error, whatever
\* the fetcher did.
C10_ShortReadHasError ==
  (last.op = "ReadAt" /\ Returned /\ last.n < last.len) => last.err # "nil"

\* the call asked the fetcher for at least one range
Requested == \E i \in 1..Len(last.calls) : last.calls[i] # << >>

\* C11: a ReadAt during which a FetchRanges/FetchBlocks call returns an error
\* returns n = 0 and that error.
C11_FetchErrorSurfaces ==
  (last.op = "ReadAt" /\ last.fault /\ Requested)
    => (Returned /\ last.n = 0 /\ last.err = "fetch")

\* C12: a ReadAt of at least one byte whose fetcher answers a request with a
\* nil error and no blocks returns a non-nil error and n = 0; it does not
\* crash.
C12_MissingBlocks ==
  (last.op = "ReadAt" /\ fetcher = "noblocks" /\ Requested /\ last.len > 0)
    => (Returned /\ last.n = 0 /\ last.err \notin {"nil", "EOF"})

\* C13: after a failed fetch the block-cache Reader is still usable: a later
\* in-range ReadAt whose own fetch succeeds returns, with all its bytes.
C13_UsableAfterFailure ==
  (rev = "block" /\ last.op = "ReadAt" /\ faults > 0 /\ ~last.fault
     /\ fetcher = "conforming" /\ ReaderLength = resLen
     /\ last.arg >= 0 /\ last.arg + last.len <= resLen)
    => /\ Returned
       /\ last.n = last.len
       /\ last.p = ResourceBytes(last.arg, last.arg + last.len)
       /\ last.err \in {"nil", "EOF"}

\* ReadAt(p[l], o) would return all l bytes without calling the fetcher for any range
CachedRead(s, g, l, o) ==
  LET c == IF rev = "block" THEN ReadAtBlock(s, l, o, TRUE, TRUE) ELSE ReadAtRing(g, l, o, 0)
  IN /\ c.halt = "run"
     /\ c.n = l
     /\ \A i \in 1..Len(c.calls) : c.calls[i] = << >>

\* C14: a call during which a fetch fails leaves the cache as it was: every
\* range that a ReadAt could return without a fetch before the call can still
\* be returned without a fetch after it.
C14_FailedFetchKeepsCache ==
  [][(last'.fault /\ Requested')
       => \A o \in 0..(resLen - 1) : \A l \in 1..MaxP :
            CachedRead(reader, ring, l, o) => CachedRead(reader', ring', l, o)]_vars

\* C16: whatever the interleaving of the calls, the fetcher's discovery runs
\* at most once on a reader.
C16_InitOnce == reader.inits <= 1

\* the number of discovery calls (Initialize, ExpectedLength) made so far
Discoveries == IF rev = "block" THEN reader.inits ELSE ring.inits

\* the reader is a Reader literal that no operation has initialized yet
Uninitialized == rev = "block" /\ ~reader.initialized

C15_InitFailureSticky ==
  \A t \in Goroutines :
    (pc[t] = "done" /\ ~call[t].first /\ seen.initErr \notin {"none", "nil"}
       /\ (call[t].op = "ExpectedLength" \/ (call[t].op = "FetchRanges" /\ call[t].ranges # << >>)))
      => (call[t].err = seen.initErr /\ call[t].reqs = << >>)

\* C17: two goroutines that both called ExpectedLength before initialization
\* had run get the same error and the same length.
C17_SameOutcome ==
  \A t, u \in Goroutines :
    (pc[t] = "done" /\ pc[u] = "done" /\ call[t].first /\ call[u].first
       /\ call[t].op = "ExpectedLength" /\ call[u].op = "ExpectedLength")
      => (call[t].err = call[u].err /\ call[t].n = call[u].n)

\* C19: when the 2xx response to a ReadAt's data request carries no validator
\* or another one than the ranger recorded, the fetch fails with
\* RESOURCE_CHANGED and the ReadAt returns an error and no bytes.
C19_MutationDetected ==
  (last.op = "ReadAt" /\ seen.fetched /\ seen.mismatch)
    => /\ seen.err = "changed"
       /\ Returned
       /\ last.err # "nil"
       /\ last.n = 0

\* C20: validateResponse maps 412 to RESOURCE_CHANGED, 404 to
\* RESOURCE_NOT_FOUND, any other status outside 200..299 to the status error,
\* a 2xx without validator or with another validator than the recorded one
\* to RESOURCE_CHANGED, and a 2xx with the recorded validator to acceptance.
C20_StatusMapping ==
  (rev = "none" /\ seen # NoTraffic /\ seen.result # "none") =>
    LET status == seen.resp.status
        ok == status >= 200 /\ status <= 299
        new == validatorFromResponse(seen.resp)
        same == new.err = "nil" /\ new.validator = ranger.validator
    IN /\ (status = 412 => seen.result = "changed")
       /\ (status = 404 => seen.result = "notfound")
       /\ (status \notin {404, 412} /\ ~ok => seen.result = "status")
       /\ (ok /\ ~same => seen.result = "changed")
       /\ (ok /\ same => seen.result = "nil")

C20_Witness ==
  /\ rev = "none" /\ seen # NoTraffic /\ seen.result = "changed"
  /\ seen.resp.status = 206
  /\ validatorFromResponse(seen.resp).err = "nil"
  /\ validatorFromResponse(seen.resp).validator # ranger.validator
  /\ ranger.validator # ""

\* the response initialization takes its headers from: the HEAD's when its
\* status is 2xx, the fallback GET's otherwise
DiscoveryResponse ==
  IF ~seen.head.transport /\ seen.head.status >= 200 /\ seen.head.status <= 299
  THEN seen.head ELSE seen.get

Answered2xx(resp) == ~resp.transport /\ resp.status >= 200 /\ resp.status <= 299

HasValidator(resp) == StartsWithQuote(resp.etag) \/ resp.lastModified # ""

\* C21: HTTP initialization succeeds only if the discovery response is 2xx,
\* advertises Accept-Ranges: bytes and supplies a validator; when it fails the
\* reader is FAILED: a later ExpectedLength and a later ReadAt on the Reader
\* fail with the error initialization failed with, and return no bytes.
C21_InitRequirements ==
  (seen.err # "none") =>
    /\ (seen.err = "nil" =>
          /\ Answered2xx(DiscoveryResponse)
          /\ DiscoveryResponse.acceptRanges
          /\ HasValidator(DiscoveryResponse))
    /\ (seen.err # "nil" /\ seen.againErr # "none" => seen.againErr = seen.err)
    /\ (seen.err # "nil" /\ last.op = "ReadAt"
          => Returned /\ last.n = 0 /\ last.err = seen.err)

\* C22: the validator is the ETag when it is a strong (quoted) one, otherwise
\* the Last-Modified value when there is one, otherwise initialization fails;
\* a weak ETag is never the validator, and the validator stored by a
\* successful initialization is not empty.
C22_ValidatorSelection ==
  (seen.err # "none") =>
    /\ (Answered2xx(DiscoveryResponse) /\ DiscoveryResponse.acceptRanges) =>
          /\ StartsWithQuote(DiscoveryResponse.etag)
                => ranger.validator = DiscoveryResponse.etag
          /\ (~StartsWithQuote(DiscoveryResponse.etag) /\ DiscoveryResponse.lastModified # "")
                => ranger.validator = DiscoveryResponse.lastModified
          /\ (~StartsWithQuote(DiscoveryResponse.etag) /\ DiscoveryResponse.lastModified = "")
                => (seen.err = "novalidator" /\ ranger.validator = "")
    /\ ranger.validator \notin {WeakETag(1), WeakETag(2)}
    /\ (seen.err = "nil" => ranger.validator # "")

\* C22 witness: the response carries a weak ETag and a Last-Modified date, and
\* initialization succeeded with the date as validator
C22_Witness ==
  /\ seen.err = "nil"
  /\ DiscoveryResponse.etag = WeakETag(1)
  /\ DiscoveryResponse.lastModified # ""
  /\ ranger.validator = DiscoveryResponse.lastModified

\* C23: the first request of initialization is a HEAD; a GET of bytes=0-0
\* follows, once, exactly when the HEAD was answered with a status that is not
\* 2xx; a fallback GET that is not answered 2xx fails initialization. The
\* length is the HEAD's Content-Length, or on the GET path the denominator of
\* Content-Range; a Content-Range without a parsable "/L" fails initialization.
C23_ProtocolOrder ==
  (seen.err # "none") =>
    /\ Len(seen.reqs) \in 1..2
    /\ seen.reqs[1] = "HEAD"
    /\ (Len(seen.reqs) = 2 <=>
          (~seen.head.transport /\ ~(seen.head.status >= 200 /\ seen.head.status <= 299)))
    /\ (Len(seen.reqs) = 2 => seen.reqs[2] = "GET 0-0")
    /\ (Len(seen.reqs) = 2 /\ ~Answered2xx(seen.get) => seen.err # "nil")
    /\ (Len(seen.reqs) = 2 /\ seen.get.contentRange # "bytes 0-0/L" => seen.err # "nil")
    /\ (seen.err = "nil" /\ Len(seen.reqs) = 1 => ranger.length = seen.head.contentLength)
    /\ (seen.err = "nil" /\ Len(seen.reqs) = 2 => ranger.length = resLen)

\* C23 witness: the HEAD was refused, the GET of bytes=0-0 was answered, and
\* the length of a resource longer than that one byte came from Content-Range;
\* a later ExpectedLength sent nothing more
C23_Witness ==
  /\ seen.err = "nil"
  /\ seen.reqs = <<"HEAD", "GET 0-0">>
  /\ seen.head.status = 404
  /\ resLen > 1 /\ ranger.length = resLen
  /\ seen.againErr = "nil"

\* the body the server sent holds every byte of every range
CompleteBody ==
  IF seen.body.kind = "multipart"
  THEN \/ seen.body \in RunBodies(seen.ranges)
       \/ /\ Len(seen.body.parts) = Len(seen.ranges)
          /\ \A i \in 1..Len(seen.ranges) :
               Len(seen.body.parts[i].stream) = seen.ranges[i].End - seen.ranges[i].Start + 1
  ELSE Len(seen.body.parts[1].stream) = Len(RangesBytes(seen.ranges))

\* C24: a FetchRanges that returns a nil error for a non-empty range list
\* returns one block per range, in the order of the ranges, each holding the
\* end - start + 1 bytes of its range; a body that ends part-way through a
\* range, the last one included, yields an error.
C24_FetchComplete ==
  seen.done =>
    /\ (seen.err = "nil" =>
          /\ Len(seen.blocks) = Len(seen.ranges)
          /\ \A i \in 1..Len(seen.ranges) :
               /\ seen.blocks[i].Length = seen.ranges[i].End - seen.ranges[i].Start + 1
               /\ seen.blocks[i].Data =
                    ResourceBytes(seen.ranges[i].Start, seen.ranges[i].End + 1))
    /\ (~CompleteBody => seen.err # "nil")

\* C25: whatever the interleaving of the ReadAt calls of two goroutines on one
\* reader, a call that returns n bytes with a nil error or with io.EOF returns
\* the n resource bytes that start at its own offset, and no goroutine comes to
\* copy from a block that is not there (no "lies" error, no panic).
C25_ConcurrentSafety ==
  /\ halt # "panic"
  /\ \A t \in Goroutines :
       (pc[t] = "done" /\ call[t].op = "ReadAt") =>
         /\ call[t].err # "lies"
         /\ call[t].err \in {"nil", "EOF"} =>
              SubSeq(call[t].p, 1, call[t].n)
                = ResourceBytes(call[t].arg, call[t].arg + call[t].n)

\* the last call was a ReadAt that returned all the bytes asked for
Succeeded == last.op = "ReadAt" /\ Returned /\ last.err \in {"nil", "EOF"} /\ last.n = last.len

\* C26: a ReadAt that immediately repeats a successful ReadAt, same offset and
\* same length, returns the same bytes and asks the fetcher for no range.
C26_CacheIdempotence ==
  [][(Healthy /\ Succeeded /\ last'.op = "ReadAt"
        /\ last'.arg = last.arg /\ last'.len = last.len)
       => /\ Returned'
          /\ last'.n = last.n
          /\ last'.p = last.p
          /\ ~Requested']_vars

\* the first block b0 and the number k of blocks of size B that a read of l
\* bytes at o spans
FirstBlock(o, B) == o \div B

SpanCount(o, l, B) == ((o + l + B - 1) \div B) - FirstBlock(o, B)

\* C27: a ReadAt that spans k contiguous blocks, none of them cached before
\* the call, makes exactly one fetcher call, and the request sent for that
\* call carries one byte range, [b0*B, min((b0+k)*B, L) - 1].
C27_Coalescing ==
  [][(rev = "block" /\ Healthy' /\ last'.op = "ReadAt" /\ Returned'
        /\ last'.arg >= 0 /\ last'.len > 0 /\ last'.arg + last'.len <= resLen
        /\ \A i \in 0..(SpanCount(last'.arg, last'.len, reader'.BlockSize) - 1) :
             FirstBlock(last'.arg, reader'.BlockSize) + i \notin DOMAIN reader.blocks)
       => /\ Len(last'.calls) = 1
          /\ RangeHeader(last'.calls[1]) =
               <<(<<FirstBlock(last'.arg, reader'.BlockSize) * reader'.BlockSize,
                    Min((FirstBlock(last'.arg, reader'.BlockSize)
                           + SpanCount(last'.arg, last'.len, reader'.BlockSize))
                          * reader'.BlockSize, resLen) - 1>>)>>]_vars

\* C28: a block number that is in the block cache stays in it, with the same
\* bytes, at every step of every call: no eviction, no reset, and a second
\* install of the number stores the same bytes.
C28_CacheMonotone ==
  [][rev = "block" =>
       \A bn \in DOMAIN reader.blocks :
         bn \in DOMAIN reader'.blocks /\ reader'.blocks[bn] = reader.blocks[bn]]_vars

\* the reader's one initialization has run and the discovery call failed
InitFailed == rev = "block" /\ reader.initialized /\ reader.length # resLen

\* C29: Length initializes a reader that is not yet initialized; every call
\* returns the same result: the resource length with a nil error when
\* initialization succeeded, and an error, not a length to go on with, when
\* initialization failed.
C29_LengthHonest ==
  (last.op = "Length") =>
    /\ ~Uninitialized
    /\ Discoveries = 1
    /\ (InitFailed => last.err # "nil")
    /\ (~InitFailed => (last.err = "nil" /\ last.n = resLen))

\* C30: every byte range a call passes to the fetcher has
\* 0 <= start <= end <= L - 1 (the range of the last block ends at L - 1, not
\* at L), and the ranges of one fetcher call are ascending and do not overlap.
C30_RangesWellFormed ==
  \A i \in 1..Len(last.calls) :
    /\ \A j \in 1..Len(last.calls[i]) :
         /\ 0 <= last.calls[i][j].Start
         /\ last.calls[i][j].Start <= last.calls[i][j].End
         /\ last.calls[i][j].End <= resLen - 1
    /\ \A j, k \in 1..Len(last.calls[i]) :
         j < k => last.calls[i][j].End < last.calls[i][k].Start

\* the block size B a read works with: BlockSize, or the ring buffer's size
ReadBlockSize == IF rev = "block" THEN reader.BlockSize ELSE ring.buffSize

\* block bn is not in the cache (the ring-buffer Reader keeps no block cache)
Missing(bn) == rev = "ring" \/ bn \notin DOMAIN reader.blocks

\* C31: no read-ahead. A read of [offset, offset + length) that lies in the
\* resource makes at most one fetcher call, and every byte it requests is a
\* byte of the resource in one of the blocks b0 .. b0+k-1 the read spans that
\* was missing from the cache when the read probed it.
C31_NoReadAhead ==
  [][(Healthy' /\ (last'.op = "Read" \/ last'.op = "ReadAt") /\ Returned'
        /\ ReadStart' >= 0 /\ last'.len > 0 /\ ReadStart' + last'.len <= resLen)
       => /\ Len(last'.calls) <= 1
          /\ \A i \in 1..Len(last'.calls) : \A j \in 1..Len(last'.calls[i]) :
               \A x \in (last'.calls[i][j].Start)..(last'.calls[i][j].End) :
                 /\ x < resLen
                 /\ (x \div ReadBlockSize') - FirstBlock(ReadStart', ReadBlockSize')
                      \in 0..(SpanCount(ReadStart', last'.len, ReadBlockSize') - 1)
                 /\ Missing(x \div ReadBlockSize')]_vars

\* block b of size B holds a byte of [off, off + length)
Intersects(b, B, off, length) == b * B < off + length /\ (b + 1) * B > off

\* C32: blockRange(off, length, B) returns b0 = floor(off / B) and
\* k = ceil((off + length) / B) - b0 for all off >= 0, length >= 0, B > 0; for
\* length > 0 the blocks b0 .. b0+k-1 are exactly the blocks that hold a byte
\* of [off, off + length), and for length = 0 k is 0 when off is a multiple
\* of B and 1 otherwise.
C32_BlockRange ==
  seen.done =>
    /\ seen.startBlock = seen.off \div seen.blockSize
    /\ seen.nblocks = ((seen.off + seen.length + seen.blockSize - 1) \div seen.blockSize)
                        - (seen.off \div seen.blockSize)
    /\ (seen.length > 0 =>
          \A b \in 0..(2 * MaxInt64) :
            (seen.startBlock <= b /\ b < seen.startBlock + seen.nblocks)
              <=> Intersects(b, seen.blockSize, seen.off, seen.length))
    /\ (seen.length = 0 =>
          seen.nblocks = (IF seen.off % seen.blockSize = 0 THEN 0 ELSE 1))

\* the body answers the ranges in full and ends with io.EOF: one stream of the
\* bytes of all ranges, or a multipart body of one part per run of ranges
FaithfulBody ==
  \/ seen.body \in RunBodies(seen.ranges)
  \/ /\ seen.body.kind = "contiguous"
     /\ seen.body.parts[1].stream = RangesBytes(seen.ranges)
     /\ seen.body.parts[1].ending = "EOF"

\* C33: response splitting re-buckets by the requested ranges. For a
\* multipart body whose parts are the coalesced ranges in order and for a
\* single contiguous body, FetchRanges returns one block per requested range
\* and block i holds exactly the bytes of range i: a part that covers several
\* adjacent ranges fills their consecutive blocks, and the next part goes on
\* with the next unfilled block.
C33_ResponseSplitting ==
  (seen.done /\ FaithfulBody) =>
    /\ seen.err = "nil"
    /\ Len(seen.blocks) = Len(seen.ranges)
    /\ \A i \in 1..Len(seen.ranges) :
         /\ seen.blocks[i].Length = seen.ranges[i].End - seen.ranges[i].Start + 1
         /\ seen.blocks[i].Data = ResourceBytes(seen.ranges[i].Start, seen.ranges[i].End + 1)

\* C33 witness: three ranges answered by a multipart body of two parts, the
\* first of which covers the first two ranges
C33_Witness ==
  /\ seen.done /\ seen.err = "nil"
  /\ seen.body.kind = "multipart"
  /\ Len(seen.ranges) = 3 /\ Len(seen.body.parts) = 2
  /\ Len(seen.body.parts[1].stream) > seen.ranges[1].End - seen.ranges[1].Start + 1
  /\ Len(seen.blocks) = 3

\* goroutine t is inside a section of ReadAt that runs under the write lock
\* from one step to the next: init, between its Lock and its deferred Unlock
HoldsWriteLock(t) == pc[t] = "initialize"

\* C34: lock discipline of the block-cache Reader. No two goroutines are in a
\* write-locked section at once, and every lock a ReadAt acquires is released
\* before that ReadAt returns, on success and on every error path: the mutex
\* is locked only while some goroutine is inside a locked section.
C34_LockDiscipline ==
  rev = "block" =>
    /\ \A t, u \in Goroutines : (HoldsWriteLock(t) /\ HoldsWriteLock(u)) => t = u
    /\ (reader.mutex = "locked") => \E t \in Goroutines : HoldsWriteLock(t)

\* the block numbers goroutine t's ReadAt has passed to FetchBlocks
Dispatched(t) ==
  IF pc[t] \in {"copy", "done"}
  THEN {call[t].ranges[i].Number : i \in 1..Len(call[t].ranges)}
  ELSE {}

\* C35: concurrent ReadAt calls never dispatch two requests for the same
\* block: in any interleaving in which no fetcher call fails, no block number
\* is passed to FetchBlocks by more than one call.
C35_NoDuplicateDispatch ==
  (rev = "block" /\ faults = 0) =>
    \A t, u \in Goroutines : t # u => Dispatched(t) \cap Dispatched(u) = {}

\* C36: block/buffer size validation. A size left unset selects the default
\* of 128 KiB; a non-positive size that was configured explicitly is rejected
\* with an error at construction; no read divides or takes a remainder by a
\* size <= 0, and none panics.
C36_SizeValidation ==
  seen.err # "none" =>
    /\ (~seen.given =>
          /\ seen.err = "nil"
          /\ (rev = "ring" \/ reader.initialized) => ReadBlockSize = DefaultBlockSize)
    /\ ((seen.given /\ seen.size <= 0) => seen.err # "nil")
    /\ halt # "panic"
    /\ (last.op = "ReadAt" /\ last.err \in {"nil", "EOF"}) => ReadBlockSize > 0

\* C37: a Seek that returns an error leaves current_offset unchanged, for
\* every whence and offset.
C37_FailedSeekKeepsOffset ==
  (last.op = "Seek" /\ last.err # "nil") => CurrentOffset = last.cur

\* C38: offset invariant. After any sequence of Seek, Read and ReadAt calls,
\* successful or failing, on a reader whose initialization succeeded,
\* 0 <= current_offset <= L.
C38_OffsetInRange ==
  (ReaderLength = resLen /\ (rev = "block" => reader.initialized))
    => (0 <= CurrentOffset /\ CurrentOffset <= resLen)

\* the next Read copies out of buff without refilling it first
WindowOpen ==
  /\ 0 < ring.writePoint - ring.readPoint
  /\ ring.writePoint - ring.readPoint <= ring.buffSize

\* C39: ring-buffer window invariant. Whenever the ring-buffer Reader is to
\* copy out of buff without refilling (0 < writePoint - readPoint <=
\* buffSize, readPoint in the resource), writePoint <= L and buff holds the
\* resource bytes [readPoint, writePoint), byte x at index x mod buffSize;
\* also after short fills near the end of the resource and after
\* repositioning inside the window.
C39_RingWindow ==
  (rev = "ring" /\ Healthy /\ Returned /\ WindowOpen /\ ring.readPoint >= 0) =>
    /\ ring.writePoint <= resLen
    /\ \A x \in (ring.readPoint)..(ring.writePoint - 1) :
         ring.buff[(x % ring.buffSize) + 1] = ResourceByte(x)
====
